---- MODULE Spec2Model ----
(***************************************************************************)
(* Model of the Windows device-control layer of serialport-rs:             *)
(*   src/windows/dcb.rs  - the DCB bit accessors and the set_* translators *)
(*   src/windows/com.rs  - COMPort: open, Drop, into_raw_handle, the       *)
(*                         settings getters and setters                    *)
(* The device is modelled by the control block it holds (what GetCommState *)
(* returns and SetCommState stores) and by the state of the three native   *)
(* objects open creates (the device handle and the two event objects).     *)
(***************************************************************************)
EXTENDS Integers, Sequences, FiniteSets, TLC

VARIABLES
    dev,        \* the control block the device holds (GetCommState / SetCommState)
    rsrc,       \* state of each native object open creates: "none", "open", "closed"
    closeLog,   \* the objects handed to CloseHandle, in call order
    port,       \* the COMPort value: "unopened", "failed", "open", "dropped", "raw"
    blk,        \* the local `dcb` of the last call as that call left it: <<d>>,
                \* or << >> when the call never held a block
    last,       \* the last call: what it was given, what it returned, what it called
    que,        \* the bytes waiting in the driver's input and output queues
    en,         \* the device-information set and what available_ports made of it
    io,         \* a read or write in progress, and the native transfer it issued
    thr         \* two callers running a settings setter against the same device

vars == <<dev, rsrc, closeLog, port, blk, last, que, en, io, thr>>

\* what the port's lifecycle and its settings calls leave alone
aux == <<que, en, io, thr>>

(***************************************************************************)
(* Bounds of the model.                                                    *)
(***************************************************************************)
\* number of distinct baud rates a caller may ask for
NumBauds == 2
\* number of distinct shapes of the non-flag fields of a block found on a device
NumShapes == 2

(***************************************************************************)
(* Native constants (windows_sys::Win32::Devices::Communication).          *)
(***************************************************************************)
NOPARITY == 0
ODDPARITY == 1
EVENPARITY == 2
ONESTOPBIT == 0
ONE5STOPBITS == 1
TWOSTOPBITS == 2

\* enum DtrControl, enum RtsControl (dcb.rs)
DtrControl == [Disable |-> 0, Enable |-> 1, Handshake |-> 2]
RtsControl == [Disable |-> 0, Enable |-> 1, Handshake |-> 2, Toggle |-> 3]

(***************************************************************************)
(* Portable enums.  Unknown is the extra variant the `_ =>` arms of the    *)
(* translators and of the getters stand for.                               *)
(***************************************************************************)
DataBitsValues == {"Five", "Six", "Seven", "Eight", "Unknown"}
ParityValues == {"None", "Odd", "Even", "Unknown"}
StopBitsValues == {"One", "OnePointFive", "Two", "Unknown"}
FlowControlValues == {"None", "Software", "Hardware", "Unknown"}

(***************************************************************************)
(* Packed-word arithmetic on DCB._bitfield (a u32).                        *)
(***************************************************************************)
Pow2(n) == 2 ^ n

\* (word >> pos) & (2^width - 1)
Bits(word, pos, width) == (word \div Pow2(pos)) % Pow2(width)

\* word |= 1 << pos   /   word &= !(1 << pos)
SetBit(word, pos, value) ==
    IF value
    THEN IF Bits(word, pos, 1) = 1 THEN word ELSE word + Pow2(pos)
    ELSE IF Bits(word, pos, 1) = 1 THEN word - Pow2(pos) ELSE word

\* word &= !(0b11 << pos); word |= (value & 0b11) << pos
SetBits2(word, pos, value) ==
    (word - Bits(word, pos, 2) * Pow2(pos)) + (value % 4) * Pow2(pos)

(***************************************************************************)
(* impl BitOperation for DCB                                               *)
(***************************************************************************)
set_fBinary(dcb, value) == [dcb EXCEPT !.bitfield = SetBit(@, 0, value)]
set_fParity(dcb, value) == [dcb EXCEPT !.bitfield = SetBit(@, 1, value)]
set_fOutxCtsFlow(dcb, value) == [dcb EXCEPT !.bitfield = SetBit(@, 2, value)]
set_fOutxDsrFlow(dcb, value) == [dcb EXCEPT !.bitfield = SetBit(@, 3, value)]
set_fDtrControl(dcb, value) == [dcb EXCEPT !.bitfield = SetBits2(@, 4, value)]
set_fDsrSensitivity(dcb, value) == [dcb EXCEPT !.bitfield = SetBit(@, 6, value)]
set_fTXContinueOnXoff(dcb, value) == [dcb EXCEPT !.bitfield = SetBit(@, 7, value)]
set_fOutX(dcb, value) == [dcb EXCEPT !.bitfield = SetBit(@, 8, value)]
set_fInX(dcb, value) == [dcb EXCEPT !.bitfield = SetBit(@, 9, value)]
set_fErrorChar(dcb, value) == [dcb EXCEPT !.bitfield = SetBit(@, 10, value)]
set_fNull(dcb, value) == [dcb EXCEPT !.bitfield = SetBit(@, 11, value)]
\* the RTS mode written into the DTR mode's bits
set_fRtsControl_in_dtr_bits(dcb, value) ==
    [dcb EXCEPT !.bitfield = SetBits2(@, 4, value)]
set_fRtsControl(dcb, value) == [dcb EXCEPT !.bitfield = SetBits2(@, 12, value)]
set_fAbortOnError(dcb, value) == [dcb EXCEPT !.bitfield = SetBit(@, 14, value)]

fOutxCtsFlow(dcb) == Bits(dcb.bitfield, 2, 1) # 0
fRtsControl(dcb) == Bits(dcb.bitfield, 12, 2)
fOutX(dcb) == Bits(dcb.bitfield, 8, 1) # 0
fInX(dcb) == Bits(dcb.bitfield, 9, 1) # 0

\* flags the source only writes; read here to state properties of a block
fBinary(dcb) == Bits(dcb.bitfield, 0, 1) # 0
fParity(dcb) == Bits(dcb.bitfield, 1, 1) # 0

(***************************************************************************)
(* dcb::default                                                            *)
(***************************************************************************)
default(dcb) ==
    LET d0 == [dcb EXCEPT !.XonChar = 17, !.XoffChar = 19,
                          !.ErrorChar = 0, !.EofChar = 26]
        d1 == set_fBinary(d0, TRUE)
        d2 == set_fOutxDsrFlow(d1, FALSE)
        d3 == set_fDtrControl(d2, DtrControl.Disable)
        d4 == set_fDsrSensitivity(d3, FALSE)
        d5 == set_fErrorChar(d4, FALSE)
        d6 == set_fNull(d5, FALSE)
    IN  set_fAbortOnError(d6, FALSE)

(***************************************************************************)
(* The set_* translators of dcb.rs.  Each returns the block as the call    *)
(* leaves it, whether it succeeded, and the text of its error.             *)
(***************************************************************************)
Done(dcb) == [ok |-> TRUE, dcb |-> dcb, msg |-> ""]
InvalidArgument(dcb, msg) == [ok |-> FALSE, dcb |-> dcb, msg |-> msg]

set_baud_rate(dcb, baud_rate) == [dcb EXCEPT !.BaudRate = baud_rate]

\* a byte-size setter that also resets the parity mode
set_data_bits_resets_parity(dcb, data_bits) ==
    CASE data_bits = "Five" -> Done([dcb EXCEPT !.ByteSize = 5, !.Parity = NOPARITY])
      [] data_bits = "Six" -> Done([dcb EXCEPT !.ByteSize = 6, !.Parity = NOPARITY])
      [] data_bits = "Seven" -> Done([dcb EXCEPT !.ByteSize = 7, !.Parity = NOPARITY])
      [] data_bits = "Eight" -> Done([dcb EXCEPT !.ByteSize = 8, !.Parity = NOPARITY])
      [] OTHER -> InvalidArgument(dcb, "DataBits::Unknown")

set_data_bits(dcb, data_bits) ==
    CASE data_bits = "Five" -> Done([dcb EXCEPT !.ByteSize = 5])
      [] data_bits = "Six" -> Done([dcb EXCEPT !.ByteSize = 6])
      [] data_bits = "Seven" -> Done([dcb EXCEPT !.ByteSize = 7])
      [] data_bits = "Eight" -> Done([dcb EXCEPT !.ByteSize = 8])
      [] OTHER -> InvalidArgument(dcb, "DataBits::Unknown")

\* the parity-check flag written before the mode is validated
set_parity_flag_first(dcb, parity) ==
    CASE parity = "None" ->
            Done(set_fParity([dcb EXCEPT !.Parity = NOPARITY], parity # "None"))
      [] parity = "Odd" ->
            Done(set_fParity([dcb EXCEPT !.Parity = ODDPARITY], parity # "None"))
      [] parity = "Even" ->
            Done(set_fParity([dcb EXCEPT !.Parity = EVENPARITY], parity # "None"))
      [] OTHER ->
            InvalidArgument(set_fParity(dcb, parity # "None"), "Parity::Unknown")

set_parity(dcb, parity) ==
    CASE parity = "None" ->
            Done(set_fParity([dcb EXCEPT !.Parity = NOPARITY], parity # "None"))
      [] parity = "Odd" ->
            Done(set_fParity([dcb EXCEPT !.Parity = ODDPARITY], parity # "None"))
      [] parity = "Even" ->
            Done(set_fParity([dcb EXCEPT !.Parity = EVENPARITY], parity # "None"))
      [] OTHER -> InvalidArgument(dcb, "Parity::Unknown")

\* the 1.5 and 2 stop-bit codes swapped
set_stop_bits_swapped(dcb, stop_bits) ==
    CASE stop_bits = "One" -> Done([dcb EXCEPT !.StopBits = ONESTOPBIT])
      [] stop_bits = "Two" -> Done([dcb EXCEPT !.StopBits = ONE5STOPBITS])
      [] stop_bits = "OnePointFive" -> Done([dcb EXCEPT !.StopBits = TWOSTOPBITS])
      [] OTHER -> InvalidArgument(dcb, "StopBits::Unknown")

set_stop_bits(dcb, stop_bits) ==
    CASE stop_bits = "One" -> Done([dcb EXCEPT !.StopBits = ONESTOPBIT])
      [] stop_bits = "Two" -> Done([dcb EXCEPT !.StopBits = TWOSTOPBITS])
      [] stop_bits = "OnePointFive" -> Done([dcb EXCEPT !.StopBits = ONE5STOPBITS])
      [] OTHER -> InvalidArgument(dcb, "StopBits::Unknown")

set_flow_control(dcb, flow_control) ==
    CASE flow_control = "None" ->
            Done(set_fInX(set_fOutX(set_fRtsControl(set_fOutxCtsFlow(dcb, FALSE),
                 RtsControl.Disable), FALSE), FALSE))
      [] flow_control = "Software" ->
            Done(set_fInX(set_fOutX(set_fRtsControl(set_fOutxCtsFlow(dcb, FALSE),
                 RtsControl.Disable), TRUE), TRUE))
      [] flow_control = "Hardware" ->
            Done(set_fInX(set_fOutX(set_fRtsControl(set_fOutxCtsFlow(dcb, TRUE),
                 RtsControl.Enable), FALSE), FALSE))
      [] OTHER -> InvalidArgument(dcb, "StopBits::Unknown")

(***************************************************************************)
(* The match of each COMPort getter, applied to the block get_dcb returned *)
(***************************************************************************)
baudrate(dcb) == dcb.BaudRate

data_bits(dcb) ==
    CASE dcb.ByteSize = 5 -> "Five"
      [] dcb.ByteSize = 6 -> "Six"
      [] dcb.ByteSize = 7 -> "Seven"
      [] dcb.ByteSize = 8 -> "Eight"
      [] OTHER -> "Unknown"

flow_control(dcb) ==
    IF fOutxCtsFlow(dcb) \/ fRtsControl(dcb) # RtsControl.Disable
    THEN "Hardware"
    ELSE IF fOutX(dcb) \/ fInX(dcb) THEN "Software" ELSE "None"

parity(dcb) ==
    CASE dcb.Parity = ODDPARITY -> "Odd"
      [] dcb.Parity = EVENPARITY -> "Even"
      [] dcb.Parity = NOPARITY -> "None"
      [] OTHER -> "Unknown"

stop_bits(dcb) ==
    CASE dcb.StopBits = TWOSTOPBITS -> "Two"
      [] dcb.StopBits = ONESTOPBIT -> "One"
      [] dcb.StopBits = ONE5STOPBITS -> "OnePointFive"
      [] OTHER -> "Unknown"

(***************************************************************************)
(* Inputs.                                                                 *)
(***************************************************************************)
Bauds == {9600 * i : i \in 1..NumBauds}

Settings ==
    [baudrate : Bauds, data_bits : DataBitsValues, parity : ParityValues,
     stop_bits : StopBitsValues, flow_control : FlowControlValues]

\* flag words a device may hold before the library touches it: nothing set,
\* CTS flow, XON/XOFF both ways, XON/XOFF with CTS flow, RTS handshake with
\* inbound XON/XOFF, RTS toggle, every flag bit set
InitBitfields == {0, 4, 768, 772, 8704, 12288, 32767}

\* the other fields: a plain 1200-7-N-1 block, and blocks whose fields match
\* no portable variant (9 data bits, mark parity, stop-bit code 3)
Shape(k) ==
    IF k = 1
    THEN [BaudRate |-> 1200, ByteSize |-> 7, Parity |-> NOPARITY,
          StopBits |-> ONESTOPBIT, XonChar |-> 0, XoffChar |-> 0,
          ErrorChar |-> 0, EofChar |-> 0]
    ELSE [BaudRate |-> 0, ByteSize |-> 7 + k, Parity |-> 1 + k,
          StopBits |-> 1 + k, XonChar |-> 17, XoffChar |-> 19,
          ErrorChar |-> 63, EofChar |-> 26]

InitBlocks ==
    {[BaudRate |-> Shape(k).BaudRate, ByteSize |-> Shape(k).ByteSize,
      Parity |-> Shape(k).Parity, StopBits |-> Shape(k).StopBits,
      XonChar |-> Shape(k).XonChar, XoffChar |-> Shape(k).XoffChar,
      ErrorChar |-> Shape(k).ErrorChar, EofChar |-> Shape(k).EofChar,
      bitfield |-> bf] : k \in 1..NumShapes, bf \in InitBitfields}

Resources == {"handle", "r_event", "w_event"}

NoCall ==
    [op |-> "none", arg |-> "none", res |-> "none", msg |-> "",
     calls |-> << >>, val |-> "none", given |-> "none", os |-> "none"]

(***************************************************************************)
(* The other components at rest: empty queues, no enumeration run, no      *)
(* transfer in progress, no setter call in progress.                       *)
(***************************************************************************)
NoQueue == [in |-> 0, out |-> 0]
NoEnum == [phase |-> "idle"]
NoIo == [pc |-> "idle"]
NoThreads == << >>

AuxIdle ==
    /\ que = NoQueue
    /\ en = NoEnum
    /\ io = NoIo
    /\ thr = NoThreads

(***************************************************************************)
(* CloseHandle on one of the port's objects.  A null event (never created) *)
(* is no object: the call fails and changes nothing.                       *)
(***************************************************************************)
CloseHandle(w, name) ==
    IF w.rsrc[name] = "none"
    THEN w
    ELSE [rsrc |-> [w.rsrc EXCEPT ![name] = "closed"],
          log |-> Append(w.log, name)]

\* a drop that forgets the handle
drop_leaks(w) == w

\* impl Drop for COMPort
drop(w) == CloseHandle(w, "handle")

(***************************************************************************)
(* COMPort::open, lines 59-65: default the block read from the device and  *)
(* apply the builder's settings, stopping at the first `?` that fails.     *)
(***************************************************************************)
Translate(dcb, s) ==
    LET d0 == default(dcb)
        d1 == set_baud_rate(d0, s.baudrate)
        r2 == set_data_bits(d1, s.data_bits)
        r3 == set_parity(r2.dcb, s.parity)
        r4 == set_stop_bits(r3.dcb, s.stop_bits)
        r5 == set_flow_control(r4.dcb, s.flow_control)
    IN  IF ~r2.ok THEN r2
        ELSE IF ~r3.ok THEN r3
        ELSE IF ~r4.ok THEN r4
        ELSE r5

(***************************************************************************)
(* The category (io::ErrorKind) of the OS's last error after a native call *)
(* failed: the path names no device, or some other failure.                *)
(***************************************************************************)
OsErrors == {"NotFound", "PermissionDenied"}

\* impl From<io::Error> for Error: every io::Error becomes Io(its kind)
FromIoError(e) == [kind |-> "Io", io |-> e]

(***************************************************************************)
(* COMPort::open.  The outcome of each native call is an input: CreateFileW*)
(* (createFile), GetCommState (getState), SetCommState (setState) and the  *)
(* two CreateEventW calls (rEvent, wEvent); osError is the last-error      *)
(* category left by the call that fails.                                   *)
(***************************************************************************)
OpenOutcome(d, s, createFile, getState, setState, rEvent, wEvent, osError) ==
    LET w0 == [rsrc |-> [n \in Resources |-> "none"], log |-> << >>]
        wH == [w0 EXCEPT !.rsrc["handle"] = "open"]
        tr == Translate(d, s)
        wE == [wH EXCEPT !.rsrc["r_event"] = IF rEvent THEN "open" ELSE "none",
                         !.rsrc["w_event"] = IF wEvent THEN "open" ELSE "none"]
        err == FromIoError(osError)
        no(kind) == [kind |-> kind, io |-> "none"]
        out(e, msg, calls, w, newDev, b) ==
            [res |-> e.kind, os |-> e.io, msg |-> msg, calls |-> calls, w |-> w,
             dev |-> newDev, blk |-> b]
    IN  IF ~createFile
        THEN out(err, "", <<"CreateFileW">>, w0, d, << >>)
        ELSE IF ~getState
        THEN out(err, "", <<"CreateFileW", "GetCommState">>, wH, d, << >>)
        ELSE IF ~tr.ok
        THEN out(no("InvalidArgument"), tr.msg,
                 <<"CreateFileW", "GetCommState">>, wH, d, <<tr.dcb>>)
        ELSE IF ~setState
        THEN out(err, "", <<"CreateFileW", "GetCommState", "SetCommState">>,
                 wH, d, <<tr.dcb>>)
        ELSE IF ~rEvent \/ ~wEvent
        THEN out(err, "",
                 <<"CreateFileW", "GetCommState", "SetCommState",
                   "CreateEventW", "CreateEventW", "CloseHandle", "CloseHandle">>,
                 CloseHandle(CloseHandle(wE, "r_event"), "w_event"),
                 tr.dcb, <<tr.dcb>>)
        ELSE out(no("Ok"), "",
                 <<"CreateFileW", "GetCommState", "SetCommState",
                   "CreateEventW", "CreateEventW">>,
                 wE, tr.dcb, <<tr.dcb>>)

\* the outcomes a native call can have: none but FALSE when it is not made
Made(reached) == IF reached THEN BOOLEAN ELSE {FALSE}

Open ==
    /\ port = "unopened"
    /\ \E s \in Settings, createFile \in BOOLEAN :
       \E getState \in Made(createFile) :
       \E setState \in Made(getState /\ Translate(dev, s).ok) :
       \E rEvent, wEvent \in Made(setState) :
       \E osError \in IF wEvent /\ rEvent THEN {"none"} ELSE OsErrors :
         LET o == OpenOutcome(dev, s, createFile, getState, setState, rEvent, wEvent,
                              osError)
         IN  /\ port' = IF o.res = "Ok" THEN "open" ELSE "failed"
             /\ dev' = o.dev
             /\ rsrc' = o.w.rsrc
             /\ closeLog' = o.w.log
             /\ blk' = o.blk
             /\ last' = [op |-> "open", arg |-> s, res |-> o.res, msg |-> o.msg,
                         calls |-> o.calls, val |-> "none", given |-> default(dev),
                         os |-> o.os]
    /\ UNCHANGED aux

(***************************************************************************)
(* impl Drop for COMPort, run when the port value goes out of scope.       *)
(***************************************************************************)
Drop ==
    /\ port = "open"
    /\ LET w == drop([rsrc |-> rsrc, log |-> closeLog])
       IN  /\ rsrc' = w.rsrc
           /\ closeLog' = w.log
    /\ port' = "dropped"
    /\ last' = [NoCall EXCEPT !.op = "drop", !.res = "Ok", !.calls = <<"CloseHandle">>]
    /\ blk' = << >>
    /\ UNCHANGED <<dev, aux>>

(***************************************************************************)
(* IntoRawHandle::into_raw_handle.  `handle` is Copy, so the pattern       *)
(* copies it out of `self`; `self` is still whole at the end of the        *)
(* function and its Drop runs there.                                       *)
(***************************************************************************)
IntoRawHandle ==
    /\ port = "open"
    /\ LET w == drop([rsrc |-> rsrc, log |-> closeLog])
       IN  /\ rsrc' = w.rsrc
           /\ closeLog' = w.log
    /\ port' = "raw"
    /\ last' = [NoCall EXCEPT !.op = "into_raw_handle", !.res = "Ok",
                              !.calls = <<"CloseHandle">>, !.val = "handle"]
    /\ blk' = << >>
    /\ UNCHANGED <<dev, aux>>

(***************************************************************************)
(* The getters of impl SerialPort for COMPort: get_dcb(self.handle)?, then *)
(* the match.                                                              *)
(***************************************************************************)
Getter(op, value) ==
    /\ port = "open"
    /\ \E getState \in BOOLEAN :
         /\ last' = [NoCall EXCEPT !.op = op,
                                   !.res = IF getState THEN "Ok" ELSE "Io",
                                   !.calls = <<"GetCommState">>,
                                   !.val = IF getState THEN value ELSE "none"]
         /\ blk' = IF getState THEN <<dev>> ELSE << >>
    /\ UNCHANGED <<dev, rsrc, closeLog, port, aux>>

PortBaudrate == Getter("baudrate", baudrate(dev))
PortDataBits == Getter("data_bits", data_bits(dev))
PortFlowControl == Getter("flow_control", flow_control(dev))
PortParity == Getter("parity", parity(dev))
PortStopBits == Getter("stop_bits", stop_bits(dev))

(***************************************************************************)
(* The setters of impl SerialPort for COMPort: get_dcb(self.handle)?, the  *)
(* translator (r is its result on the block read), set_dcb.                *)
(***************************************************************************)
Setter(op, arg, r) ==
    /\ port = "open"
    /\ \E getState \in BOOLEAN :
         IF ~getState
         THEN /\ last' = [NoCall EXCEPT !.op = op, !.arg = arg, !.res = "Io",
                                        !.calls = <<"GetCommState">>]
              /\ blk' = << >>
              /\ UNCHANGED dev
         ELSE IF ~r.ok
         THEN /\ last' = [NoCall EXCEPT !.op = op, !.arg = arg,
                                        !.res = "InvalidArgument", !.msg = r.msg,
                                        !.calls = <<"GetCommState">>]
              /\ blk' = <<r.dcb>>
              /\ UNCHANGED dev
         ELSE \E setState \in BOOLEAN :
              /\ last' = [NoCall EXCEPT !.op = op, !.arg = arg,
                                        !.res = IF setState THEN "Ok" ELSE "Io",
                                        !.calls = <<"GetCommState", "SetCommState">>]
              /\ blk' = <<r.dcb>>
              /\ dev' = IF setState THEN r.dcb ELSE dev
    /\ UNCHANGED <<rsrc, closeLog, port, aux>>

PortSetBaudRate ==
    \E b \in Bauds :
        Setter("set_baud_rate", b, Done(set_baud_rate(dev, b)))

PortSetDataBits ==
    \E v \in DataBitsValues :
        Setter("set_data_bits", v, set_data_bits(dev, v))

PortSetFlowControl ==
    \E v \in FlowControlValues :
        Setter("set_flow_control", v, set_flow_control(dev, v))

PortSetParity ==
    \E v \in ParityValues :
        Setter("set_parity", v, set_parity(dev, v))

PortSetStopBits ==
    \E v \in StopBitsValues :
        Setter("set_stop_bits", v, set_stop_bits(dev, v))

Init ==
    /\ dev \in InitBlocks
    /\ rsrc = [n \in Resources |-> "none"]
    /\ closeLog = << >>
    /\ port = "unopened"
    /\ blk = << >>
    /\ last = NoCall
    /\ AuxIdle

Next ==
    \/ Open
    \/ Drop
    \/ IntoRawHandle
    \/ PortBaudrate
    \/ PortDataBits
    \/ PortFlowControl
    \/ PortParity
    \/ PortStopBits
    \/ PortSetBaudRate
    \/ PortSetDataBits
    \/ PortSetFlowControl
    \/ PortSetParity
    \/ PortSetStopBits

Spec == Init /\ [][Next]_vars

(***************************************************************************)
(* The translator on its own: dcb::default, the set_* functions and the    *)
(* getters' matches applied to a block of any content (blk[1]), as they    *)
(* are applied to whatever block a device returns.                         *)
(***************************************************************************)
DcbCall(op, arg, r) ==
    /\ blk' = <<r.dcb>>
    /\ last' = [NoCall EXCEPT !.op = op, !.arg = arg,
                              !.res = IF r.ok THEN "Ok" ELSE "InvalidArgument",
                              !.msg = r.msg]
    /\ UNCHANGED <<dev, rsrc, closeLog, port, aux>>

DcbDefault == DcbCall("default", "none", Done(default(blk[1])))

DcbSetBaudRate ==
    \E b \in Bauds : DcbCall("set_baud_rate", b, Done(set_baud_rate(blk[1], b)))

DcbSetDataBits ==
    \E v \in DataBitsValues : DcbCall("set_data_bits", v, set_data_bits(blk[1], v))

DcbSetParity ==
    \E v \in ParityValues : DcbCall("set_parity", v, set_parity(blk[1], v))

DcbSetStopBits ==
    \E v \in StopBitsValues : DcbCall("set_stop_bits", v, set_stop_bits(blk[1], v))

DcbSetFlowControl ==
    \E v \in FlowControlValues :
        DcbCall("set_flow_control", v, set_flow_control(blk[1], v))

\* what the five getters return for the block
ReadBack(dcb) ==
    [baudrate |-> baudrate(dcb), data_bits |-> data_bits(dcb),
     parity |-> parity(dcb), stop_bits |-> stop_bits(dcb),
     flow_control |-> flow_control(dcb)]

DcbReadBack ==
    /\ last' = [NoCall EXCEPT !.op = "read_back", !.res = "Ok",
                              !.val = ReadBack(blk[1])]
    /\ UNCHANGED <<dev, rsrc, closeLog, port, blk, aux>>

InitDcb ==
    /\ dev \in InitBlocks
    /\ blk = <<dev>>
    /\ rsrc = [n \in Resources |-> "none"]
    /\ closeLog = << >>
    /\ port = "unopened"
    /\ last = NoCall
    /\ AuxIdle

NextDcb ==
    \/ DcbDefault
    \/ DcbSetBaudRate
    \/ DcbSetDataBits
    \/ DcbSetParity
    \/ DcbSetStopBits
    \/ DcbSetFlowControl
    \/ DcbReadBack

SpecDcb == InitDcb /\ [][NextDcb]_vars

(***************************************************************************)
(* Properties.                                                             *)
(***************************************************************************)
Called(name) == \E i \in DOMAIN last.calls : last.calls[i] = name

Releases(name) == Cardinality({i \in DOMAIN closeLog : closeLog[i] = name})

NothingAcquired == \A n \in Resources : rsrc[n] # "open"

\* C1: when open has acquired the device handle and then fails at get_dcb, in
\* the translation of a setting, or at set_dcb, no native resource is still
\* acquired when open returns the error.
C1_NoLeakOnConfigFailure ==
    (/\ last.op = "open"
     /\ last.res # "Ok"
     /\ Called("GetCommState")
     /\ ~Called("CreateEventW")) => NothingAcquired

\* C2: when the creation of the read event or of the write event fails in
\* open, the device handle and the event that was created are released
\* before open returns: open leaves a usable port or no resource at all.
C2_NoLeakOnEventFailure ==
    /\ (last.op = "open" /\ last.res # "Ok" /\ Called("CreateEventW"))
          => NothingAcquired
    /\ (last.op = "open" /\ last.res = "Ok")
          => \A n \in Resources : rsrc[n] = "open"

\* C3: dropping an open port releases the read event and the write event and
\* then the device handle, in that order; none of the three stays acquired.
C3_DropReleasesEventsThenHandle ==
    (port = "dropped") =>
        /\ \A n \in Resources : rsrc[n] = "closed"
        /\ Len(closeLog) = 3
        /\ closeLog[3] = "handle"

C5_RoundTrip ==
    (last.op = "open" /\ last.res = "Ok") => ReadBack(dev) = last.arg

\* C5 witness: hardware flow control, even parity and 1.5 stop bits were
\* written over a block that had XON/XOFF output enabled, and read back
C5_Witness ==
    /\ last.op = "open"
    /\ last.res = "Ok"
    /\ last.arg.flow_control = "Hardware"
    /\ last.arg.parity = "Even"
    /\ last.arg.stop_bits = "OnePointFive"
    /\ fOutX(last.given)
    /\ ReadBack(dev) = last.arg

\* the native fields each portable setting is written to
NativeFields(dcb) ==
    [data_bits |-> <<dcb.ByteSize>>,
     parity |-> <<dcb.Parity, fParity(dcb)>>,
     stop_bits |-> <<dcb.StopBits>>,
     flow_control |-> <<fOutxCtsFlow(dcb), fRtsControl(dcb), fOutX(dcb), fInX(dcb)>>]

\* the order in which open applies the enum settings
ApplyOrder == <<"data_bits", "parity", "stop_bits", "flow_control">>

\* the position in ApplyOrder of the first setting that is Unknown (5 if none)
FirstUnknown(s) ==
    IF \E i \in 1..4 : s[ApplyOrder[i]] = "Unknown"
    THEN CHOOSE i \in 1..4 :
            /\ s[ApplyOrder[i]] = "Unknown"
            /\ \A j \in 1..(i - 1) : s[ApplyOrder[j]] # "Unknown"
    ELSE 5

\* C6 (as stated): a translation that meets an Unknown sentinel fails with
\* InvalidInput and leaves the block it was given completely unchanged, the
\* fields applied earlier in the same translation included.
C6_TranslationLeavesBlockUnchanged ==
    (last.op = "open" /\ last.res = "InvalidArgument") => blk = <<last.given>>

\* C6 (amended): the translation in open fails with InvalidInput at the first
\* Unknown sentinel; the setter that rejects it changes nothing, so that
\* setting's native fields and those of every later setting are as in the
\* block the translation was given; the baud rate and every earlier setting
\* stay applied in open's local block; the block on the device is not written.
C6_RejectingSetterChangesNothing ==
    [][(last'.op = "open" /\ last'.res = "InvalidArgument") =>
        LET s == last'.arg
            k == FirstUnknown(s)
            g == default(dev)
            b == blk'[1]
        IN  /\ k <= 4
            /\ dev' = dev
            /\ ~(\E i \in DOMAIN last'.calls : last'.calls[i] = "SetCommState")
            /\ b.BaudRate = s.baudrate
            /\ \A i \in 1..4 :
                 IF i < k
                 THEN ReadBack(b)[ApplyOrder[i]] = s[ApplyOrder[i]]
                 ELSE NativeFields(b)[ApplyOrder[i]] = NativeFields(g)[ApplyOrder[i]]
            /\ [b EXCEPT !.BaudRate = 0, !.ByteSize = 0, !.Parity = 0,
                         !.StopBits = 0, !.bitfield = 0]
                 = [g EXCEPT !.BaudRate = 0, !.ByteSize = 0, !.Parity = 0,
                             !.StopBits = 0, !.bitfield = 0]
       ]_vars

\* C6 witness: open rejected an Unknown parity after the baud rate and the
\* data bits had been written into its local block
C6_Witness ==
    /\ last.op = "open"
    /\ last.res = "InvalidArgument"
    /\ last.arg.data_bits = "Eight"
    /\ last.arg.parity = "Unknown"
    /\ blk # <<last.given>>
    /\ blk[1].ByteSize = 8
    /\ blk[1].Parity = last.given.Parity

SetterOps == {"set_data_bits", "set_parity", "set_stop_bits", "set_flow_control"}

\* C7: a settings setter of an open port given an Unknown sentinel returns
\* InvalidInput without having made any native call, neither a read nor a
\* write of the control block.
C7_RejectedBeforeAnyNativeCall ==
    (last.op \in SetterOps /\ last.arg = "Unknown") =>
        (last.res = "InvalidArgument" /\ last.calls = << >>)

\* the text that names the field each setter translates
FieldText ==
    [set_data_bits |-> "DataBits::Unknown", set_parity |-> "Parity::Unknown",
     set_stop_bits |-> "StopBits::Unknown",
     set_flow_control |-> "FlowControl::Unknown"]

\* C8: the InvalidInput error a translator returns for an Unknown input names
\* the field that translator handles, and no other.
C8_ErrorNamesOffendingField ==
    (last.op \in SetterOps /\ last.res = "InvalidArgument") =>
        last.msg = FieldText[last.op]

\* the flow flags of a block mix software and hardware flow control
MixedFlow(dcb) ==
    /\ fOutX(dcb) \/ fInX(dcb)
    /\ fOutxCtsFlow(dcb) \/ fRtsControl(dcb) # RtsControl.Disable

\* the flag combinations set_flow_control's table produces for each mode
\* (for Hardware, with RTS either enabled or in handshake mode)
InTable(dcb, mode) ==
    CASE mode = "None" ->
            /\ ~fOutxCtsFlow(dcb) /\ fRtsControl(dcb) = RtsControl.Disable
            /\ ~fOutX(dcb) /\ ~fInX(dcb)
      [] mode = "Software" ->
            /\ ~fOutxCtsFlow(dcb) /\ fRtsControl(dcb) = RtsControl.Disable
            /\ fOutX(dcb) /\ fInX(dcb)
      [] mode = "Hardware" ->
            /\ fOutxCtsFlow(dcb)
            /\ fRtsControl(dcb) \in {RtsControl.Enable, RtsControl.Handshake}
            /\ ~fOutX(dcb) /\ ~fInX(dcb)
      [] OTHER -> FALSE

\* C9: reading a block back gives Unknown for a field whose native value
\* matches no portable variant; flow_control gives Unknown for mixed software
\* and hardware flags, and None, Software or Hardware only for the table's
\* flag combinations.
C9_ReadBackUnknownWhenNoVariant ==
    (last.op = "read_back") =>
        LET d == blk[1]
            v == last.val
        IN  /\ (v.data_bits = "Unknown") <=> (d.ByteSize \notin {5, 6, 7, 8})
            /\ (v.parity = "Unknown")
                 <=> (d.Parity \notin {NOPARITY, ODDPARITY, EVENPARITY})
            /\ (v.stop_bits = "Unknown")
                 <=> (d.StopBits \notin {ONESTOPBIT, ONE5STOPBITS, TWOSTOPBITS})
            /\ MixedFlow(d) => v.flow_control = "Unknown"
            /\ (v.flow_control # "Unknown") => InTable(d, v.flow_control)

\* C10: set_flow_control writes the four flow flags by the fixed table,
\* whatever they were: None clears all four, Software sets XON/XOFF both ways
\* and clears the hardware flags, Hardware sets CTS-gated output and the RTS
\* handshake mode and clears XON/XOFF.
C10_FlowControlTable ==
    (last.op = "set_flow_control" /\ last.res = "Ok") =>
        LET d == blk[1]
        IN  CASE last.arg = "None" ->
                    /\ ~fOutxCtsFlow(d) /\ fRtsControl(d) = RtsControl.Disable
                    /\ ~fOutX(d) /\ ~fInX(d)
              [] last.arg = "Software" ->
                    /\ ~fOutxCtsFlow(d) /\ fRtsControl(d) = RtsControl.Disable
                    /\ fOutX(d) /\ fInX(d)
              [] last.arg = "Hardware" ->
                    /\ fOutxCtsFlow(d) /\ fRtsControl(d) = RtsControl.Handshake
                    /\ ~fOutX(d) /\ ~fInX(d)

\* the fixed baseline dcb::default writes: binary mode set, DSR output flow
\* off, DTR control Disable, DSR sensitivity off, error-character
\* substitution off, null stripping off, abort-on-error off
Baseline(dcb) ==
    /\ Bits(dcb.bitfield, 0, 1) = 1
    /\ Bits(dcb.bitfield, 3, 1) = 0
    /\ Bits(dcb.bitfield, 4, 2) = DtrControl.Disable
    /\ Bits(dcb.bitfield, 6, 1) = 0
    /\ Bits(dcb.bitfield, 10, 1) = 0
    /\ Bits(dcb.bitfield, 11, 1) = 0
    /\ Bits(dcb.bitfield, 14, 1) = 0

\* C11: a block to which dcb::default has been applied has the fixed baseline
\* flags, and no call of set_baud_rate, set_data_bits, set_parity,
\* set_stop_bits or set_flow_control, with any value, takes them away again.
C11_DefaultsPrecedence ==
    /\ [](last.op = "default" => Baseline(blk[1]))
    /\ [][Baseline(blk[1]) => Baseline(blk'[1])]_vars

\* C11 witness: hardware flow control was set on a defaulted block that has
\* odd parity, and the baseline flags are in place
C11_Witness ==
    /\ last.op = "set_flow_control"
    /\ last.arg = "Hardware"
    /\ last.res = "Ok"
    /\ blk[1].Parity = ODDPARITY
    /\ fOutxCtsFlow(blk[1])
    /\ Baseline(blk[1])

(***************************************************************************)
(* Error kinds of a failed open.                                           *)
(***************************************************************************)
\* C12: an open that fails because the path names no device (the OS reports
\* "not found" for CreateFileW) fails with the NoDevice kind; other native
\* failures are reported as Io carrying the OS error category.
C12_AbsentDeviceIsNoDevice ==
    (last.op = "open" /\ last.calls = <<"CreateFileW">>) =>
        /\ last.os = "NotFound" => last.res = "NoDevice"
        /\ last.os # "NotFound" => last.res = "Io"

(***************************************************************************)
(* The driver's queues of an open port: clear, bytes_to_read and           *)
(* bytes_to_write, with bytes arriving from the line, queued by a writer   *)
(* and leaving on the line in between.                                     *)
(***************************************************************************)
MaxQueue == 3

PURGE_TXABORT == 1
PURGE_RXABORT == 2
PURGE_TXCLEAR == 4
PURGE_RXCLEAR == 8

ClearValues == {"Input", "Output", "All"}

\* a | b for flag words
BitOr(a, b) ==
    LET bit(k) == IF Bits(a, k, 1) = 1 \/ Bits(b, k, 1) = 1 THEN Pow2(k) ELSE 0
    IN  bit(0) + bit(1) + bit(2) + bit(3)

\* a match that lets Output purge the receive side as well
ClearFlags_output_purges_rx(buffer_to_clear) ==
    IF buffer_to_clear = "Input"
    THEN BitOr(PURGE_RXABORT, PURGE_RXCLEAR)
    ELSE BitOr(BitOr(PURGE_RXABORT, PURGE_RXCLEAR),
               BitOr(PURGE_TXABORT, PURGE_TXCLEAR))

\* clear, the match on buffer_to_clear
ClearFlags(buffer_to_clear) ==
    CASE buffer_to_clear = "Input" -> BitOr(PURGE_RXABORT, PURGE_RXCLEAR)
      [] buffer_to_clear = "Output" -> BitOr(PURGE_TXABORT, PURGE_TXCLEAR)
      [] buffer_to_clear = "All" ->
            BitOr(BitOr(PURGE_RXABORT, PURGE_RXCLEAR),
                  BitOr(PURGE_TXABORT, PURGE_TXCLEAR))

\* the driver's PurgeComm: RXCLEAR empties the input queue, TXCLEAR the
\* output queue
PurgeComm(q, flags) ==
    [in |-> IF Bits(flags, 3, 1) = 1 THEN 0 ELSE q.in,
     out |-> IF Bits(flags, 2, 1) = 1 THEN 0 ELSE q.out]

\* the ports left by a successful open with plain 8-N-1 settings
PlainSettings ==
    {s \in Settings : /\ s.data_bits = "Eight"
                      /\ s.parity = "None"
                      /\ s.stop_bits = "One"
                      /\ s.flow_control = "None"}

OpenedPort(d, s) == OpenOutcome(d, s, TRUE, TRUE, TRUE, TRUE, TRUE, "NotFound")

\* SerialPort::clear
PortClear ==
    /\ port = "open"
    /\ \E target \in ClearValues, purge \in BOOLEAN :
         LET buffer_flags == ClearFlags(target)
         IN  /\ que' = IF purge THEN PurgeComm(que, buffer_flags) ELSE que
             /\ last' = [NoCall EXCEPT !.op = "clear", !.arg = target,
                                       !.res = IF purge THEN "Ok" ELSE "Io",
                                       !.calls = <<"PurgeComm">>,
                                       !.val = buffer_flags, !.given = que]
    /\ UNCHANGED <<dev, rsrc, closeLog, port, blk, en, io, thr>>

\* bytes_to_read / bytes_to_write: ClearCommError, then the queue count
QueueCount(op, count) ==
    /\ port = "open"
    /\ \E clearCommError \in BOOLEAN :
         last' = [NoCall EXCEPT !.op = op,
                                !.res = IF clearCommError THEN "Ok" ELSE "Io",
                                !.calls = <<"ClearCommError">>,
                                !.val = IF clearCommError THEN count ELSE "none"]
    /\ UNCHANGED <<dev, rsrc, closeLog, port, blk, aux>>

PortBytesToRead == QueueCount("bytes_to_read", que.in)

PortBytesToWrite == QueueCount("bytes_to_write", que.out)

\* the line delivers a byte into the input queue
Receive ==
    /\ port = "open"
    /\ que.in < MaxQueue
    /\ que' = [que EXCEPT !.in = @ + 1]
    /\ last' = [NoCall EXCEPT !.op = "receive"]
    /\ UNCHANGED <<dev, rsrc, closeLog, port, blk, en, io, thr>>

\* a writer leaves a byte in the output queue
Enqueue ==
    /\ port = "open"
    /\ que.out < MaxQueue
    /\ que' = [que EXCEPT !.out = @ + 1]
    /\ last' = [NoCall EXCEPT !.op = "enqueue"]
    /\ UNCHANGED <<dev, rsrc, closeLog, port, blk, en, io, thr>>

\* the line takes a byte from the output queue
Transmit ==
    /\ port = "open"
    /\ que.out > 0
    /\ que' = [que EXCEPT !.out = @ - 1]
    /\ last' = [NoCall EXCEPT !.op = "transmit"]
    /\ UNCHANGED <<dev, rsrc, closeLog, port, blk, en, io, thr>>

InitBuf ==
    /\ \E d \in InitBlocks, s \in PlainSettings :
         /\ dev = OpenedPort(d, s).dev
         /\ rsrc = OpenedPort(d, s).w.rsrc
         /\ closeLog = OpenedPort(d, s).w.log
    /\ port = "open"
    /\ blk = << >>
    /\ last = NoCall
    /\ AuxIdle

NextBuf ==
    \/ PortClear
    \/ PortBytesToRead
    \/ PortBytesToWrite
    \/ Receive
    \/ Enqueue
    \/ Transmit

SpecBuf == InitBuf /\ [][NextBuf]_vars


\* C13: clear(Input) requests exactly input-abort + input-clear, clear(Output)
\* exactly output-abort + output-clear, clear(All) all four; bytes_to_read
\* right after a successful clear(Input) reports zero, and a successful
\* clear(Output) leaves what bytes_to_read reports unchanged.
C13_PurgeIndependence ==
    /\ [](last.op = "clear" =>
            last.val = CASE last.arg = "Input" -> 10
                         [] last.arg = "Output" -> 5
                         [] last.arg = "All" -> 15)
    /\ []((last.op = "bytes_to_read" /\ last.res = "Ok") => last.val = que.in)
    /\ [][(/\ last.op = "clear"
           /\ last.arg = "Input"
           /\ last.res = "Ok"
           /\ last'.op = "bytes_to_read"
           /\ last'.res = "Ok") => last'.val = 0]_vars
    /\ [][(/\ last'.op = "clear"
           /\ last'.arg = "Output"
           /\ last'.res = "Ok") => que'.in = que.in]_vars

C13_Witness ==
    /\ last.op = "clear"
    /\ last.arg = "Output"
    /\ last.res = "Ok"
    /\ last.given.in > 0
    /\ last.given.out > 0
    /\ que = [in |-> last.given.in, out |-> 0]

(***************************************************************************)
(* available_ports.  The device-information set the class query returns    *)
(* (classOk, devs) and the last-error code after a failed                  *)
(* SetupDiEnumDeviceInfo are inputs.  Strings are sequences of UTF-16 code *)
(* units; the buffer is BufLen units long.                                 *)
(***************************************************************************)
MaxDevices == 2
MaxZeroErrors == 1
BufLen == 4

\* GetLastError() after a failed SetupDiEnumDeviceInfo: 0, or
\* ERROR_NO_MORE_ITEMS
LastErrors == {0, 259}

PortNames == {<<1>>, <<1, 2, 3>>}
FriendlyNames == {<<4>>, <<4, 5, 6>>}

\* a device of the set: its PortName value, its friendly name, and how the
\* lookups on it end (path: "nokey" SetupDiOpenDevRegKey fails, "noquery"
\* RegQueryValueExW fails, "ok")
Devices ==
    [port : PortNames, friendly : FriendlyNames,
     path : {"nokey", "noquery", "ok"}, nameOk : BOOLEAN]

DeviceSets ==
    UNION {[1..n -> Devices] : n \in 0..MaxDevices}

\* let mut buffer = [0u16; 64]
ZeroBuffer == [i \in 1..BufLen |-> 0]

\* a registry call stores a NUL-terminated string at the start of the buffer
Store(buffer, str) ==
    [i \in 1..BufLen |->
        IF i <= Len(str) THEN str[i]
        ELSE IF i = Len(str) + 1 THEN 0
        ELSE buffer[i]]

from_utf16_lossy_trimmed(utf16) ==
    LET kept == {i \in 1..Len(utf16) : \E j \in i..Len(utf16) : utf16[j] # 0}
    IN  [i \in 1..Cardinality(kept) |-> utf16[i]]

\* PortInfo::default()
PortInfoDefault == [path |-> << >>, name |-> << >>]

\* a loop body that takes the name from the buffer whatever the lookup says
LoopBody_name_unchecked(devs, info) ==
    IF info = 0
    THEN PortInfoDefault
    ELSE LET d == devs[info]
             buffer1 == IF d.path = "ok" THEN Store(ZeroBuffer, d.port)
                        ELSE ZeroBuffer
         IN  [path |-> IF d.path = "ok" THEN from_utf16_lossy_trimmed(buffer1)
                       ELSE << >>,
              name |-> from_utf16_lossy_trimmed(
                          IF d.nameOk THEN Store(buffer1, d.friendly) ELSE buffer1)]

\* lines 54-90: the record built for the device `info` describes (0: the
\* zeroed SP_DEVINFO_DATA, which names no device, so both lookups fail)
LoopBody(devs, info) ==
    IF info = 0
    THEN PortInfoDefault
    ELSE LET d == devs[info]
             buffer1 == IF d.path = "ok" THEN Store(ZeroBuffer, d.port)
                        ELSE ZeroBuffer
             buffer2 == IF d.nameOk THEN Store(buffer1, d.friendly) ELSE buffer1
         IN  [path |-> IF d.path = "ok" THEN from_utf16_lossy_trimmed(buffer1)
                       ELSE << >>,
              name |-> IF d.nameOk THEN from_utf16_lossy_trimmed(buffer2)
                       ELSE << >>]

\* lines 36-46: the class query, whose result is not examined, and the
\* loop's variables
AvailablePorts ==
    /\ en.phase = "idle"
    /\ \E classOk \in BOOLEAN, devs \in DeviceSets :
         /\ classOk \/ devs = << >>
         /\ en' = [phase |-> "loop", classOk |-> classOk, devs |-> devs,
                   index |-> 0, info |-> 0, infos |-> << >>, zeros |-> 0,
                   res |-> "none", destroyed |-> FALSE]
    /\ UNCHANGED <<dev, rsrc, closeLog, port, blk, last, que, io, thr>>

\* lines 47-94, one turn of the loop; on break lines 96-99
EnumLoop ==
    /\ en.phase = "loop"
    /\ IF en.index < Len(en.devs)
       THEN en' = [en EXCEPT !.info = en.index + 1,
                             !.index = @ + 1,
                             !.infos = Append(@, LoopBody(en.devs, en.index + 1))]
       ELSE \E lastError \in LastErrors :
              /\ lastError = 0 => en.zeros < MaxZeroErrors
              /\ IF lastError # 0
                 THEN en' = [en EXCEPT !.phase = "done", !.res = "Ok",
                                       !.destroyed = TRUE]
                 ELSE en' = [en EXCEPT !.zeros = @ + 1,
                                       !.index = @ + 1,
                                       !.infos = Append(@, LoopBody(en.devs, en.info))]
    /\ UNCHANGED <<dev, rsrc, closeLog, port, blk, last, que, io, thr>>

InitEnum ==
    /\ dev \in {d \in InitBlocks : d.bitfield = 0 /\ d.ByteSize = 7}
    /\ rsrc = [n \in Resources |-> "none"]
    /\ closeLog = << >>
    /\ port = "unopened"
    /\ blk = << >>
    /\ last = NoCall
    /\ AuxIdle

NextEnum ==
    \/ AvailablePorts
    \/ EnumLoop

SpecEnum == InitEnum /\ [][NextEnum]_vars

\* C14: when the class-level device query fails, available_ports fails for
\* the whole call instead of returning a list.
C14_ClassQueryFailureIsError ==
    (en.phase = "done" /\ ~en.classOk) => en.res = "Err"

IsPrefix(p, q) ==
    /\ Len(p) <= Len(q)
    /\ \A i \in 1..Len(p) : p[i] = q[i]

\* C15: every enumerated device gets a record; a failed friendly-name lookup
\* leaves that record's name empty and a failed port-name lookup leaves its
\* path empty, and the records of the other devices carry their own values.
C15_FailedLookupGivesEmptyField ==
    en.phase \in {"loop", "done"} =>
        /\ en.phase = "done" => Len(en.infos) >= Len(en.devs)
        /\ \A i \in 1..Len(en.infos) :
             i <= Len(en.devs) =>
                /\ ~en.devs[i].nameOk => en.infos[i].name = << >>
                /\ en.devs[i].path # "ok" => en.infos[i].path = << >>
                /\ en.devs[i].path = "ok" => en.infos[i].path = en.devs[i].port
                /\ en.devs[i].nameOk =>
                      IsPrefix(en.devs[i].friendly, en.infos[i].name)

C15_Witness ==
    /\ en.phase = "done"
    /\ Len(en.devs) = 2
    /\ Len(en.infos) = 2
    /\ ~en.devs[1].nameOk
    /\ en.devs[1].path = "ok"
    /\ en.devs[2].nameOk
    /\ en.devs[2].path = "nokey"
    /\ en.infos[1] = [path |-> en.devs[1].port, name |-> << >>]
    /\ en.infos[2] = [path |-> << >>, name |-> en.devs[2].friendly]

\* C20: available_ports returns exactly one record per device of the set,
\* in enumeration order: the loop stops at the first failing enumeration
\* call whatever the last-error code, and appends no record for an index at
\* which no device was returned.
C20_OneRecordPerDevice ==
    en.phase \in {"loop", "done"} =>
        /\ Len(en.infos) <= Len(en.devs)
        /\ en.phase = "done" => Len(en.infos) = Len(en.devs)

\* C18: into_raw_handle hands the native handle to the caller: when the call
\* returns the handle is still open, and the port has not released it.
C18_RawHandleStaysOpen ==
    port = "raw" =>
        /\ rsrc["handle"] = "open"
        /\ Releases("handle") = 0

\* the getter that reads back what a setter sets
FieldOf(op) ==
    CASE op = "set_baud_rate" -> "baudrate"
      [] op = "set_data_bits" -> "data_bits"
      [] op = "set_parity" -> "parity"
      [] op = "set_stop_bits" -> "stop_bits"
      [] op = "set_flow_control" -> "flow_control"

\* C19: on an open port the five getters return the values given at open,
\* a successful setter changes what the getter of its own field returns to
\* the value set and nothing of what the other four return, and the
\* parity-check flag is set exactly when the parity mode is not None.
C19_SettersChangeOwnFieldOnly ==
    /\ [](port = "open" => (fParity(dev) <=> parity(dev) # "None"))
    /\ []((last.op = "open" /\ last.res = "Ok") => ReadBack(dev) = last.arg)
    /\ [][(/\ port = "open"
           /\ last'.op \in SetterOps \cup {"set_baud_rate"}
           /\ last'.res = "Ok")
          => ReadBack(dev') =
                [ReadBack(dev) EXCEPT ![FieldOf(last'.op)] = last'.arg]]_vars

C19_Witness ==
    /\ port = "open"
    /\ last.op = "set_parity"
    /\ last.arg = "Even"
    /\ last.res = "Ok"
    /\ fParity(dev)
    /\ ReadBack(dev) = [baudrate |-> 19200, data_bits |-> "Five",
                        parity |-> "Even", stop_bits |-> "Two",
                        flow_control |-> "Software"]

(***************************************************************************)
(* Two setter calls on one device handle, each in its two native steps:    *)
(* get_dcb with the translator applied to the local copy, then set_dcb.    *)
(* The handle of an open port can be used from a second thread through     *)
(* as_raw_handle; `overlapped` notes that the other call was between its   *)
(* two steps at some time during this one.                                 *)
(***************************************************************************)
Threads == {1, 2}

IdleCall ==
    [pc |-> "idle", op |-> "none", arg |-> "none", dcb |-> "none",
     res |-> "none", overlapped |-> FALSE]

\* DCB::default(), the zeroed block get_dcb starts from
DcbZero ==
    [BaudRate |-> 0, ByteSize |-> 0, Parity |-> 0, StopBits |-> 0,
     XonChar |-> 0, XoffChar |-> 0, ErrorChar |-> 0, EofChar |-> 0,
     bitfield |-> 0]

\* a read that returns the block without GetCommState having filled it
get_dcb_unfilled(device) == DcbZero

\* dcb::get_dcb succeeding: GetCommState fills the block from the device
get_dcb(device) == [f \in DOMAIN DcbZero |-> device[f]]

\* the setter calls and their arguments
SetterCalls ==
    ({"set_baud_rate"} \X Bauds)
        \cup ({"set_data_bits"} \X DataBitsValues)
        \cup ({"set_parity"} \X ParityValues)
        \cup ({"set_stop_bits"} \X StopBitsValues)
        \cup ({"set_flow_control"} \X FlowControlValues)

\* the translator each setter applies to its local copy
Translator(op, dcb, arg) ==
    CASE op = "set_baud_rate" -> Done(set_baud_rate(dcb, arg))
      [] op = "set_data_bits" -> set_data_bits(dcb, arg)
      [] op = "set_parity" -> set_parity(dcb, arg)
      [] op = "set_stop_bits" -> set_stop_bits(dcb, arg)
      [] op = "set_flow_control" -> set_flow_control(dcb, arg)

\* first half of a setter: let mut dcb = dcb::get_dcb(self.handle)?; then
\* dcb::set_x(&mut dcb, x)? on the local copy
SetterRead(t) ==
    /\ port = "open"
    /\ thr[t].pc = "idle"
    /\ \E c \in SetterCalls, getState \in BOOLEAN :
         LET r == Translator(c[1], get_dcb(dev), c[2])
             busy == {u \in Threads \ {t} : thr[u].pc = "write"}
             mine == [IdleCall EXCEPT !.op = c[1], !.arg = c[2]]
             call == IF ~getState
                     THEN [mine EXCEPT !.pc = "done", !.res = "Io"]
                     ELSE IF ~r.ok
                     THEN [mine EXCEPT !.pc = "done", !.res = "InvalidArgument",
                                       !.overlapped = busy # {}]
                     ELSE [mine EXCEPT !.pc = "write", !.dcb = r.dcb,
                                       !.overlapped = busy # {}]
         IN  thr' = [u \in Threads |->
                        IF u = t THEN call
                        ELSE IF u \in busy /\ getState
                        THEN [thr[u] EXCEPT !.overlapped = TRUE]
                        ELSE thr[u]]
    /\ UNCHANGED <<dev, rsrc, closeLog, port, blk, last, que, en, io>>

\* second half of a setter: dcb::set_dcb(self.handle, dcb)
SetterWrite(t) ==
    /\ port = "open"
    /\ thr[t].pc = "write"
    /\ \E setState \in BOOLEAN :
         /\ dev' = IF setState THEN thr[t].dcb ELSE dev
         /\ thr' = [thr EXCEPT ![t].pc = "done",
                               ![t].res = IF setState THEN "Ok" ELSE "Io"]
    /\ UNCHANGED <<rsrc, closeLog, port, blk, last, que, en, io>>

InitRace ==
    /\ \E d \in InitBlocks, s \in PlainSettings :
         /\ dev = OpenedPort(d, s).dev
         /\ rsrc = OpenedPort(d, s).w.rsrc
         /\ closeLog = OpenedPort(d, s).w.log
    /\ port = "open"
    /\ blk = << >>
    /\ last = NoCall
    /\ que = NoQueue
    /\ en = NoEnum
    /\ io = NoIo
    /\ thr = [t \in Threads |-> IdleCall]

NextRace ==
    \E t \in Threads :
        \/ SetterRead(t)
        \/ SetterWrite(t)

SpecRace == InitRace /\ [][NextRace]_vars

\* the call of thread t has returned Ok
ReturnedOk(t) == thr[t].pc = "done" /\ thr[t].res = "Ok"

\* the getter of the field t set returns the value t set
Kept(t) == ReadBack(dev)[FieldOf(thr[t].op)] = thr[t].arg

\* C17: a setter reads the whole block, changes one field and writes the
\* whole block back.  Two calls that do not interleave never lose a change:
\* a call that returned Ok with no other call between its two steps has its
\* value read back unless a later call set the same field.  (The witness is
\* the interleaved case: both calls report Ok and one change is gone.)
C17_NoLossWithoutInterleaving ==
    \A t \in Threads :
        (ReturnedOk(t) /\ ~thr[t].overlapped) =>
            \/ Kept(t)
            \/ \E u \in Threads \ {t} :
                  /\ ReturnedOk(u)
                  /\ FieldOf(thr[u].op) = FieldOf(thr[t].op)
                  /\ Kept(u)

C17_Witness ==
    /\ ReturnedOk(1)
    /\ ReturnedOk(2)
    /\ thr[1].overlapped
    /\ thr[2].overlapped
    /\ thr[1].op = "set_baud_rate"
    /\ thr[2].op = "set_parity"
    /\ ~Kept(1)
    /\ Kept(2)

(***************************************************************************)
(* read and write over the overlapped transport (the I/O engine of the     *)
(* specification, section 4.3): issue the transfer; on immediate           *)
(* completion return its count; on "pending" wait on the direction's event *)
(* for up to the timeout; on wait-timeout cancel the transfer and return   *)
(* the partial count; on wait-success query the count.  Time is counted in *)
(* ticks; `moved` is what the driver has transferred so far.               *)
(***************************************************************************)
MaxTimeout == 2
MaxBytes == 2

Directions == {"read", "write"}

\* a wait-timeout that returns without cancelling the transfer
IoReturnOnTimeout_no_cancel(c) ==
    [c EXCEPT !.pc = "returned", !.res = "Ok", !.count = c.moved,
              !.how = "timeout"]

\* wait-timeout: cancel the pending transfer, return the partial count
IoReturnOnTimeout(c) ==
    [c EXCEPT !.pc = "returned", !.res = "Ok", !.count = c.moved,
              !.how = "timeout", !.inflight = FALSE, !.cancelled = TRUE]

\* read(buffer, timeout) / write(buffer, timeout): the transfer request
IoIssue ==
    /\ port = "open"
    /\ io.pc \in {"idle", "returned"}
    /\ \E dir \in Directions, timeout \in 0..MaxTimeout, len \in 1..MaxBytes,
          issue \in {"immediate", "pending", "error"}, n \in 0..MaxBytes :
         /\ n <= len
         /\ issue # "immediate" => n = 0
         /\ io' = [pc |-> IF issue = "pending" THEN "waiting" ELSE "returned",
                   dir |-> dir, timeout |-> timeout, len |-> len,
                   elapsed |-> 0, moved |-> n, count |-> n,
                   inflight |-> issue = "pending", cancelled |-> FALSE,
                   res |-> CASE issue = "immediate" -> "Ok"
                             [] issue = "pending" -> "none"
                             [] issue = "error" -> "Io",
                   how |-> issue]
    /\ UNCHANGED <<dev, rsrc, closeLog, port, blk, last, que, en, thr>>

\* the driver moves a byte of the pending transfer
IoProgress ==
    /\ io.pc = "waiting"
    /\ io.moved < io.len
    /\ io' = [io EXCEPT !.moved = @ + 1]
    /\ UNCHANGED <<dev, rsrc, closeLog, port, blk, last, que, en, thr>>

\* a tick passes in the wait on the completion object
IoTick ==
    /\ io.pc = "waiting"
    /\ io.elapsed < io.timeout
    /\ io' = [io EXCEPT !.elapsed = @ + 1]
    /\ UNCHANGED <<dev, rsrc, closeLog, port, blk, last, que, en, thr>>

\* wait-success: the completion object is signalled, the count is queried
IoComplete ==
    /\ io.pc = "waiting"
    /\ \E query \in BOOLEAN :
         io' = [io EXCEPT !.pc = "returned", !.inflight = FALSE,
                          !.res = IF query THEN "Ok" ELSE "Io",
                          !.count = IF query THEN io.moved ELSE 0,
                          !.how = "completed"]
    /\ UNCHANGED <<dev, rsrc, closeLog, port, blk, last, que, en, thr>>

\* wait-timeout
IoTimeout ==
    /\ io.pc = "waiting"
    /\ io.elapsed = io.timeout
    /\ io' = IoReturnOnTimeout(io)
    /\ UNCHANGED <<dev, rsrc, closeLog, port, blk, last, que, en, thr>>

InitIo ==
    /\ \E d \in InitBlocks, s \in PlainSettings :
         /\ dev = OpenedPort(d, s).dev
         /\ rsrc = OpenedPort(d, s).w.rsrc
         /\ closeLog = OpenedPort(d, s).w.log
    /\ port = "open"
    /\ blk = << >>
    /\ last = NoCall
    /\ AuxIdle

NextIo ==
    \/ IoIssue
    \/ IoProgress
    \/ IoTick
    \/ IoComplete
    \/ IoTimeout

SpecIo == InitIo /\ [][NextIo]_vars

\* C16: a pending read or write waits on its direction's completion object
\* for at most the timeout; on wait-timeout the transfer is cancelled before
\* the call returns a partial count without error; no transfer is in flight
\* once a call has returned.
C16_NoTransferInFlightAfterReturn ==
    /\ io.pc = "returned" => ~io.inflight
    /\ io.pc = "waiting" =>
          /\ io.elapsed <= io.timeout
          /\ io.inflight
    /\ (io.pc = "returned" /\ io.how = "timeout") =>
          /\ io.cancelled
          /\ io.res = "Ok"
          /\ io.count <= io.len
          /\ io.elapsed = io.timeout

C16_Witness ==
    /\ io.pc = "returned"
    /\ io.how = "timeout"
    /\ io.dir = "read"
    /\ io.timeout = 2
    /\ io.len = 2
    /\ io.count = 1
    /\ io.cancelled
    /\ ~io.inflight
====
